---- MODULE Spec2Model ----
(***************************************************************************)
(* Model of check_js.py: the line rules, the brace-balance accumulator    *)
(* and the reporter of the script.js checker.                              *)
(*                                                                         *)
(* Text is a sequence of one-character strings.  The messages the program  *)
(* formats are built as strings, exactly as the f-strings build them.      *)
(***************************************************************************)
EXTENDS Integers, Sequences, FiniteSets, TLC

(***************************************************************************)
(* Bounds of the input families.                                           *)
(***************************************************************************)
MaxBody == 4
MaxBraceTokens == 4
MaxLogTokens == 3
MaxWs == 3
MaxLines == 7

(***************************************************************************)
(* Program constant: issues[:20].                                          *)
(***************************************************************************)
ShowLimit == 20

(***************************************************************************)
(* Generic helpers on text.                                                *)
(***************************************************************************)
Min(S) == CHOOSE m \in S : \A o \in S : m <= o

SeqsUpTo(S, n) == UNION {[1..k -> S] : k \in 0..n}

RECURSIVE Flatten(_)
Flatten(ss) == IF ss = <<>> THEN <<>> ELSE Head(ss) \o Flatten(Tail(ss))

\* The literals of the source.
ConsoleLogCall == <<"c", "o", "n", "s", "o", "l", "e", ".", "l", "o", "g", "(">>
DebugLog == <<"d", "e", "b", "u", "g", "L", "o", "g">>
LineCommentMarker == <<"/", "/">>

\* The characters str.strip() and str.rstrip() remove by default, among the
\* characters the inputs are made of.
Whitespace == {" ", "\t", "\n", "\f"}

\* needle in s
Contains(needle, s) ==
  \E p \in 1..(Len(s) - Len(needle) + 1) : SubSeq(s, p, p + Len(needle) - 1) = needle

\* s.startswith(pre)
startswith(s, pre) == Len(s) >= Len(pre) /\ SubSeq(s, 1, Len(pre)) = pre

\* s.rstrip(chars)
RECURSIVE rstripChars(_, _)
rstripChars(s, chars) ==
  IF s # <<>> /\ s[Len(s)] \in chars
  THEN rstripChars(SubSeq(s, 1, Len(s) - 1), chars)
  ELSE s

\* s.lstrip(chars)
RECURSIVE lstripChars(_, _)
lstripChars(s, chars) ==
  IF s # <<>> /\ s[1] \in chars
  THEN lstripChars(Tail(s), chars)
  ELSE s

\* s.strip()
strip(s) == lstripChars(rstripChars(s, Whitespace), Whitespace)

\* s.count(c)
count(s, c) == Cardinality({p \in 1..Len(s) : s[p] = c})

\* f.readlines(): every line keeps its "\n"; only the last one may lack it.
RECURSIVE readlines(_)
readlines(text) ==
  IF text = <<>> THEN <<>>
  ELSE LET nl == {p \in 1..Len(text) : text[p] = "\n"}
       IN IF nl = {} THEN <<text>>
          ELSE <<SubSeq(text, 1, Min(nl))>>
                 \o readlines(SubSeq(text, Min(nl) + 1, Len(text)))

(***************************************************************************)
(* The three line rules.                                                   *)
(***************************************************************************)
\* Variant: the debugLog exemption is forgotten.
HasConsoleLogWithoutExemption(line) == Contains(ConsoleLogCall, line)

\* 'console.log(' in line and 'debugLog' not in line
HasConsoleLog(line) == Contains(ConsoleLogCall, line) /\ ~Contains(DebugLog, line)

\* Variant: the line is not stripped before the test.
IsCommentLineUnstripped(line) == startswith(line, LineCommentMarker)

\* line.strip().startswith('//')
IsCommentLine(line) == startswith(strip(line), LineCommentMarker)

\* re.search(r'[^=!<>]==[^=]', line): one character of each class is consumed
\* on both sides of the two '='; a negated class also matches "\n".
SearchLooseEq(line) ==
  \E p \in 1..(Len(line) - 3) :
     /\ line[p] \notin {"=", "!", "<", ">"}
     /\ line[p + 1] = "="
     /\ line[p + 2] = "="
     /\ line[p + 3] # "="

\* Variant: the terminator is not set aside.
HasTrailingWhitespaceOrNewline(line) == rstripChars(line, Whitespace) # line

\* line.rstrip() != line.rstrip('\n')
HasTrailingWhitespace(line) == rstripChars(line, Whitespace) # rstripChars(line, {"\n"})

\* The formatted messages.
LogIssue(i) == "Line " \o ToString(i) \o ": Found console.log - should use debugLog"
EqIssue(i) == "Line " \o ToString(i) \o ": Found == - consider using ==="
WsIssue(i) == "Line " \o ToString(i) \o ": Trailing whitespace"

\* Variant: the trailing-whitespace check runs before the equality check.
LineIssuesWsBeforeEq(i, line) ==
  (IF HasConsoleLog(line) THEN <<LogIssue(i)>> ELSE <<>>)
  \o (IF HasTrailingWhitespace(line) THEN <<WsIssue(i)>> ELSE <<>>)
  \o (IF ~IsCommentLine(line) /\ SearchLooseEq(line) THEN <<EqIssue(i)>> ELSE <<>>)

\* The body of the first loop: what one line appends to issues.
LineIssues(i, line) ==
  (IF HasConsoleLog(line) THEN <<LogIssue(i)>> ELSE <<>>)
  \o (IF ~IsCommentLine(line) /\ SearchLooseEq(line) THEN <<EqIssue(i)>> ELSE <<>>)
  \o (IF HasTrailingWhitespace(line) THEN <<WsIssue(i)>> ELSE <<>>)

(***************************************************************************)
(* The brace-balance accumulator.                                          *)
(***************************************************************************)
\* re.sub(r'//.*$', '', line): '.' stops at "\n" and '$' matches at the end of
\* the string or right before a final "\n".
LineCommentStarts(s) ==
  {p \in 1..(Len(s) - 1) :
     /\ s[p] = "/" /\ s[p + 1] = "/"
     /\ \A q \in (p + 2)..(Len(s) - 1) : s[q] # "\n"}

SubLineComment(s) ==
  IF LineCommentStarts(s) = {} THEN s
  ELSE SubSeq(s, 1, Min(LineCommentStarts(s)) - 1)
         \o (IF s[Len(s)] = "\n" THEN <<"\n">> ELSE <<>>)

\* re.sub(r'/\*.*?\*/', '', s): leftmost match, shortest close, then the scan
\* goes on after the match.
BlockCloses(s, p) ==
  {q \in (p + 2)..(Len(s) - 1) :
     /\ s[q] = "*" /\ s[q + 1] = "/"
     /\ \A r \in (p + 2)..(q - 1) : s[r] # "\n"}

BlockStarts(s) ==
  {p \in 1..(Len(s) - 1) : s[p] = "/" /\ s[p + 1] = "*" /\ BlockCloses(s, p) # {}}

RECURSIVE SubBlockComment(_)
SubBlockComment(s) ==
  IF BlockStarts(s) = {} THEN s
  ELSE LET p == Min(BlockStarts(s))
           q == Min(BlockCloses(s, p))
       IN SubSeq(s, 1, p - 1) \o SubBlockComment(SubSeq(s, q + 2, Len(s)))

\* clean_line
CleanLine(line) == SubBlockComment(SubLineComment(line))

\* Variant: block comments are not removed.
BraceDeltaLineCommentsOnly(line) ==
  count(SubLineComment(line), "{") - count(SubLineComment(line), "}")

\* What one line adds to open_braces.
BraceDelta(line) == count(CleanLine(line), "{") - count(CleanLine(line), "}")

\* The synthetic issue.
BraceIssue(n) ==
  "Unbalanced braces: " \o ToString(n) \o " extra "
     \o (IF n > 0 THEN "opening" ELSE "closing") \o " braces"

(***************************************************************************)
(* The reporter's lines.                                                   *)
(***************************************************************************)
Header(n) == "Found " \o ToString(n) \o " issues:"
IssueLine(issue) == "  " \o issue
MoreLine(n) == "  ... and " \o ToString(n - ShowLimit) \o " more issues"
NoIssuesLine == "No major issues found!"

\* Variant: issues[:21]
ShownOneMore(iss) == SubSeq(iss, 1, IF Len(iss) < ShowLimit + 1 THEN Len(iss) ELSE ShowLimit + 1)

\* issues[:20]
Shown(iss) == SubSeq(iss, 1, IF Len(iss) < ShowLimit THEN Len(iss) ELSE ShowLimit)

(***************************************************************************)
(* The inputs: the content of script.js, or no readable script.js.         *)
(***************************************************************************)
Terminators == {<<>>, <<"\n">>}

\* Lines about the equality rule.
EqAlphabet == {"=", "!", "<", ">", "a"}
EqPrefixes == {<<>>, <<" ">>, <<"/", "/">>, <<" ", "/", "/">>}
FilesEq ==
  {pre \o body \o term :
     pre \in EqPrefixes, body \in SeqsUpTo(EqAlphabet, MaxBody), term \in Terminators}

\* Lines about comments and braces.
BraceTokens == {<<"/", "/">>, <<"/", "*">>, <<"*", "/">>, <<"{">>, <<"}">>, <<"/">>}
FilesBrace ==
  {Flatten(toks) \o term :
     toks \in SeqsUpTo(BraceTokens, MaxBraceTokens), term \in Terminators}

\* Lines about the logging rule, alone or after another line.
LogTokens ==
  {ConsoleLogCall, DebugLog, SubSeq(ConsoleLogCall, 1, 11), <<"(">>, <<"/", "/">>, <<"x">>}
LogContexts == {<<>>, DebugLog \o <<"\n">>, ConsoleLogCall \o <<"\n">>}
FilesLog ==
  {ctx \o Flatten(toks) \o <<"\n">> :
     ctx \in LogContexts, toks \in SeqsUpTo(LogTokens, MaxLogTokens)}

\* Lines about trailing whitespace.
WsAlphabet == {"a", " ", "\t", "\f"}
FilesWs ==
  {body \o term : body \in SeqsUpTo(WsAlphabet, MaxWs), term \in Terminators}

\* Whole files of several lines.
CodeLine ==
  ConsoleLogCall
    \o <<"a", "=", "=", "b", "|", "|", "c", "=", "=", "d", ")", "{", " ", "\n">>
CloseLine == <<"}", "\n">>
CommentLine == <<" ", "/", "/">> \o ConsoleLogCall \o <<"a", "=", "=", "b", ")", " ", "\n">>
LineKinds == {CodeLine, CloseLine, CommentLine}
FilesMulti == {Flatten(ls) : ls \in SeqsUpTo(LineKinds, MaxLines)}

InputTexts == FilesEq \cup FilesBrace \cup FilesLog \cup FilesWs \cup FilesMulti

InputFiles ==
  {[ok |-> TRUE, text |-> t] : t \in InputTexts} \cup {[ok |-> FALSE, text |-> <<>>]}

(***************************************************************************)
(* The program.                                                            *)
(***************************************************************************)
VARIABLES file, lines, issues, open_braces, i, j, pc, output, status

vars == <<file, lines, issues, open_braces, i, j, pc, output, status>>

Init ==
  /\ file \in InputFiles
  /\ lines = <<>>
  /\ issues = <<>>
  /\ open_braces = 0
  /\ i = 1
  /\ j = 1
  /\ pc = "open"
  /\ output = <<>>
  /\ status = -1

\* with open(filename, 'r') as f: lines = f.readlines()
ReadLines ==
  /\ pc = "open"
  /\ file.ok
  /\ lines' = readlines(file.text)
  /\ i' = 1
  /\ pc' = "rules"
  /\ UNCHANGED <<file, issues, open_braces, j, output, status>>

\* open() raises: nothing catches it, the interpreter ends with status 1 and
\* writes the traceback to stderr only.
OpenFails ==
  /\ pc = "open"
  /\ ~file.ok
  /\ status' = 1
  /\ pc' = "exited"
  /\ UNCHANGED <<file, lines, issues, open_braces, i, j, output>>

\* One iteration of the first loop.
CheckLine ==
  /\ pc = "rules"
  /\ i <= Len(lines)
  /\ issues' = issues \o LineIssues(i, lines[i])
  /\ i' = i + 1
  /\ UNCHANGED <<file, lines, open_braces, j, pc, output, status>>

\* The first loop ends: open_braces = 0 and the second loop starts.
StartBraces ==
  /\ pc = "rules"
  /\ i > Len(lines)
  /\ open_braces' = 0
  /\ i' = 1
  /\ pc' = "braces"
  /\ UNCHANGED <<file, lines, issues, j, output, status>>

\* One iteration of the second loop.
CountLine ==
  /\ pc = "braces"
  /\ i <= Len(lines)
  /\ open_braces' = open_braces + BraceDelta(lines[i])
  /\ i' = i + 1
  /\ UNCHANGED <<file, lines, issues, j, pc, output, status>>

\* if open_braces != 0: issues.append(...); return issues
CheckBalance ==
  /\ pc = "braces"
  /\ i > Len(lines)
  /\ issues' = IF open_braces # 0 THEN Append(issues, BraceIssue(open_braces)) ELSE issues
  /\ pc' = "main"
  /\ UNCHANGED <<file, lines, open_braces, i, j, output, status>>

\* if issues: print(f"Found {len(issues)} issues:")
ReportHeader ==
  /\ pc = "main"
  /\ issues # <<>>
  /\ output' = Append(output, Header(Len(issues)))
  /\ j' = 1
  /\ pc' = "print"
  /\ UNCHANGED <<file, lines, issues, open_braces, i, status>>

\* else: print("No major issues found!"); sys.exit(0)
ReportNone ==
  /\ pc = "main"
  /\ issues = <<>>
  /\ output' = Append(output, NoIssuesLine)
  /\ status' = 0
  /\ pc' = "exited"
  /\ UNCHANGED <<file, lines, issues, open_braces, i, j>>

\* for issue in issues[:20]: print(f"  {issue}")
PrintIssue ==
  /\ pc = "print"
  /\ j <= Len(Shown(issues))
  /\ output' = Append(output, IssueLine(Shown(issues)[j]))
  /\ j' = j + 1
  /\ UNCHANGED <<file, lines, issues, open_braces, i, pc, status>>

\* Variant: the run with issues ends with sys.exit(0).
PrintMoreExitsZero ==
  /\ pc = "print"
  /\ j > Len(Shown(issues))
  /\ output' = IF Len(issues) > ShowLimit
               THEN Append(output, MoreLine(Len(issues)))
               ELSE output
  /\ status' = 0
  /\ pc' = "exited"
  /\ UNCHANGED <<file, lines, issues, open_braces, i, j>>

\* if len(issues) > 20: print(...); sys.exit(1)
PrintMore ==
  /\ pc = "print"
  /\ j > Len(Shown(issues))
  /\ output' = IF Len(issues) > ShowLimit
               THEN Append(output, MoreLine(Len(issues)))
               ELSE output
  /\ status' = 1
  /\ pc' = "exited"
  /\ UNCHANGED <<file, lines, issues, open_braces, i, j>>

Next ==
  \/ ReadLines
  \/ OpenFails
  \/ CheckLine
  \/ StartBraces
  \/ CountLine
  \/ CheckBalance
  \/ ReportHeader
  \/ ReportNone
  \/ PrintIssue
  \/ PrintMore

Spec == Init /\ [][Next]_vars

(***************************************************************************)
(* Vocabulary of the properties.                                           *)
(***************************************************************************)
Range(s) == {s[k] : k \in 1..Len(s)}

Occurrences(s, x) == Cardinality({k \in 1..Len(s) : s[k] = x})

\* check_javascript has returned and the reporter has not started.
Returned == pc = "main"

\* The line without its terminator.
Body(line) ==
  IF line # <<>> /\ line[Len(line)] = "\n" THEN SubSeq(line, 1, Len(line) - 1) ELSE line

\* The first characters of the line that are not whitespace are '//'.
TrimmedStartsWithComment(line) ==
  \E p \in 1..(Len(line) - 1) :
     /\ line[p] = "/" /\ line[p + 1] = "/"
     /\ \A q \in 1..(p - 1) : line[q] \in {" ", "\t", "\n", "\f"}

\* Two consecutive '=' not preceded by '=', '!', '<' or '>' and not followed
\* by '=', wherever they stand in the line.
LooseEqOccurrence(line) ==
  \E p \in 1..(Len(line) - 1) :
     /\ line[p] = "=" /\ line[p + 1] = "="
     /\ (p > 1 => line[p - 1] \notin {"=", "!", "<", ">"})
     /\ (p + 2 <= Len(line) => line[p + 2] # "=")

\* Some message of the brace-balance check.
IsBraceIssue(s) ==
  \E n \in (0 - Len(file.text))..Len(file.text) :
     s = "Unbalanced braces: " \o ToString(n) \o " extra opening braces"
     \/ s = "Unbalanced braces: " \o ToString(n) \o " extra closing braces"

\* The text before the first '//' of the line.
BeforeLineComment(line) ==
  LET starts == {p \in 1..(Len(line) - 1) : line[p] = "/" /\ line[p + 1] = "/"}
  IN IF starts = {} THEN line ELSE SubSeq(line, 1, Min(starts) - 1)

\* '{' minus '}' over the whole file, outside single-line comments only.
BalanceOutsideLineComments ==
  LET all == Flatten([k \in 1..Len(lines) |-> BeforeLineComment(lines[k])])
  IN count(all, "{") - count(all, "}")

\* '{' minus '}' over the whole file in what the cleaning leaves of each line.
BalanceOfCleanedLines ==
  LET all == Flatten([k \in 1..Len(lines) |-> CleanLine(lines[k])])
  IN count(all, "{") - count(all, "}")

(***************************************************************************)
(* C1.  For every line whose trimmed content does not begin with '//',    *)
(* a 'Found ==' issue is produced for the line if and only if the line     *)
(* contains two consecutive '=' not immediately preceded by '=', '!', '<'  *)
(* or '>' and not immediately followed by '=', at any position of the      *)
(* line, the very start and the end of an unterminated last line included. *)
(***************************************************************************)
C1_LooseEqIffOccurrence ==
  Returned =>
    \A k \in 1..Len(lines) :
       ~TrimmedStartsWithComment(lines[k]) =>
          (EqIssue(k) \in Range(issues) <=> LooseEqOccurrence(lines[k]))

(***************************************************************************)
(* C2, as stated.  A file whose '{' and '}' are as many when only the      *)
(* text outside single-line comments is counted gets no 'Unbalanced        *)
(* braces' issue.                                                          *)
(***************************************************************************)
C2_BalancedOutsideLineCommentsNoIssue ==
  Returned =>
    (BalanceOutsideLineComments = 0 => \A k \in 1..Len(issues) : ~IsBraceIssue(issues[k]))

(***************************************************************************)
(* C2, amended.  A file whose '{' and '}' are as many in what is left of   *)
(* each line once the text from the first '//' to the end of the line and  *)
(* then every '/*...*/' span of the remainder are removed gets no          *)
(* 'Unbalanced braces' issue.                                              *)
(***************************************************************************)
C2_BalancedCleanedNoIssue ==
  Returned =>
    (BalanceOfCleanedLines = 0 => \A k \in 1..Len(issues) : ~IsBraceIssue(issues[k]))

\* A returned scan of a file balanced once block comments are removed too,
\* though not balanced outside single-line comments alone.
C2_Witness ==
  /\ Returned
  /\ file.ok
  /\ BalanceOfCleanedLines = 0
  /\ BalanceOutsideLineComments # 0
  /\ issues = <<>>

(***************************************************************************)
(* C3.  After the scan there is exactly one 'Unbalanced braces' issue when *)
(* the counter is not zero and none when it is zero, and the issue reads   *)
(* 'k extra opening braces' when opens exceed closes by k and 'k extra     *)
(* closing braces' when closes exceed opens by k.                          *)
(***************************************************************************)
ExpectedBraceIssue(n) ==
  IF n > 0
  THEN "Unbalanced braces: " \o ToString(n) \o " extra opening braces"
  ELSE "Unbalanced braces: " \o ToString(0 - n) \o " extra closing braces"

C3_OneIssueWithCountAndDirection ==
  Returned =>
    /\ Cardinality({k \in 1..Len(issues) : IsBraceIssue(issues[k])})
         = (IF open_braces # 0 THEN 1 ELSE 0)
    /\ open_braces # 0 => ExpectedBraceIssue(open_braces) \in Range(issues)

(***************************************************************************)
(* C4.  The per-line issues of the returned sequence are strictly          *)
(* increasing in (line number, rule index), logging-call < loose-equality  *)
(* < trailing-whitespace, so every rule gives at most one issue per line;  *)
(* the brace-balance issue, if there is one, is the last element.          *)
(***************************************************************************)
RuleIssue(l, r) ==
  CASE r = 1 -> "Line " \o ToString(l) \o ": Found console.log - should use debugLog"
    [] r = 2 -> "Line " \o ToString(l) \o ": Found == - consider using ==="
    [] r = 3 -> "Line " \o ToString(l) \o ": Trailing whitespace"

IssueKeys == (1..Len(lines)) \X (1..3)

IsPerLineIssue(s) == \E key \in IssueKeys : s = RuleIssue(key[1], key[2])

KeyOf(s) == CHOOSE key \in IssueKeys : s = RuleIssue(key[1], key[2])

KeyLess(a, b) == a[1] < b[1] \/ (a[1] = b[1] /\ a[2] < b[2])

C4_IssuesInLineAndRuleOrder ==
  Returned =>
    \A k \in 1..Len(issues) :
       /\ IsPerLineIssue(issues[k]) \/ (k = Len(issues) /\ IsBraceIssue(issues[k]))
       /\ (k < Len(issues) /\ IsPerLineIssue(issues[k + 1]))
            => KeyLess(KeyOf(issues[k]), KeyOf(issues[k + 1]))

\* Two lines with two '==' matches each gave three issues each, in order, and
\* the brace-balance issue closes the sequence.
C4_Witness ==
  /\ Returned
  /\ lines = <<CodeLine, CodeLine>>
  /\ Len(issues) = 7
  /\ SubSeq(issues, 4, 6) = <<RuleIssue(2, 1), RuleIssue(2, 2), RuleIssue(2, 3)>>
  /\ IsBraceIssue(issues[7])

(***************************************************************************)
(* C5.  With n >= 1 issues the reporter prints a header stating n, then    *)
(* the first min(n, 20) issues in order, one per line, then a              *)
(* '... and N more issues' line exactly when n > 20, with N = n - 20.      *)
(***************************************************************************)
C5_ReportOfIssues ==
  (pc = "exited" /\ issues # <<>>) =>
    LET n == Len(issues)
        m == IF n < 20 THEN n ELSE 20
    IN /\ Len(output) = (IF n > 20 THEN m + 2 ELSE m + 1)
       /\ output[1] = "Found " \o ToString(n) \o " issues:"
       /\ \A k \in 1..m : output[k + 1] = "  " \o issues[k]
       /\ n > 20 => output[m + 2] = "  ... and " \o ToString(n - 20) \o " more issues"

\* A finished run with more than twenty issues.
C5_Witness ==
  /\ pc = "exited"
  /\ Len(issues) > 20
  /\ Len(output) = 22

(***************************************************************************)
(* C6, as stated.  Every run ends with status 0 or 1: 0, having printed    *)
(* only 'No major issues found!', exactly when the scan produced no        *)
(* issues, and 1 exactly when the scan produced one or more issues.        *)
(***************************************************************************)
C6_ExitStatusFollowsIssues ==
  pc = "exited" =>
    /\ status \in {0, 1}
    /\ status = 0 <=> issues = <<>>
    /\ status = 0 => output = <<"No major issues found!">>
    /\ status = 1 <=> issues # <<>>

(***************************************************************************)
(* C6, amended.  Every run ends with status 0 or 1.  A run that has read   *)
(* script.js ends with 0, having printed only 'No major issues found!',    *)
(* exactly when the scan produced no issues, and with 1 exactly when it    *)
(* produced one or more; a run that cannot open script.js ends with 1      *)
(* without a scan and without printing anything.                           *)
(***************************************************************************)
C6_ExitStatusFollowsIssuesOfReadFile ==
  pc = "exited" =>
    /\ status \in {0, 1}
    /\ file.ok =>
         /\ status = 0 <=> issues = <<>>
         /\ status = 0 => output = <<"No major issues found!">>
         /\ status = 1 <=> issues # <<>>
    /\ ~file.ok => (status = 1 /\ issues = <<>> /\ output = <<>>)

\* A run that read the file and ended with status 1 on the brace-balance
\* issue alone.
C6_Witness ==
  /\ pc = "exited"
  /\ file.ok
  /\ status = 1
  /\ Len(issues) = 1
  /\ IsBraceIssue(issues[1])

(***************************************************************************)
(* C7.  A line with one or more spaces or tabs right before its terminator *)
(* (or before the end of an unterminated last line) gets exactly one       *)
(* 'Trailing whitespace' issue; a line with no trailing whitespace, an     *)
(* empty line included, gets none.                                         *)
(***************************************************************************)
EndsWith(line, chars) == Body(line) # <<>> /\ Body(line)[Len(Body(line))] \in chars

C7_TrailingWhitespace ==
  Returned =>
    \A k \in 1..Len(lines) :
       /\ EndsWith(lines[k], {" ", "\t"}) => Occurrences(issues, WsIssue(k)) = 1
       /\ ~EndsWith(lines[k], {" ", "\t", "\f"}) => Occurrences(issues, WsIssue(k)) = 0

\* A line that ends with a tab after other text was flagged.
C7_Witness ==
  /\ Returned
  /\ lines = <<<<"a", " ", "\t", "\n">>>>
  /\ issues = <<"Line 1: Trailing whitespace">>

(***************************************************************************)
(* C8.  Line i has a 'Found console.log' issue if and only if it contains  *)
(* 'console.log(' and does not contain 'debugLog', whatever the other      *)
(* lines contain and whether or not the line is a comment.                 *)
(***************************************************************************)
C8_ConsoleLogBySubstring ==
  Returned =>
    \A k \in 1..Len(lines) :
       LogIssue(k) \in Range(issues)
         <=> (Contains(ConsoleLogCall, lines[k]) /\ ~Contains(DebugLog, lines[k]))

\* A comment line with the call is flagged although the line before it
\* names debugLog.
C8_Witness ==
  /\ Returned
  /\ lines = <<DebugLog \o <<"\n">>, <<"/", "/">> \o ConsoleLogCall \o <<"\n">>>>
  /\ issues = <<"Line 2: Found console.log - should use debugLog">>

(***************************************************************************)
(* C9.  A line whose trimmed content begins with '//' never gets a         *)
(* 'Found ==' issue, while the logging-call and the trailing-whitespace    *)
(* rules are still evaluated for it.                                       *)
(***************************************************************************)
C9_CommentLinesSkipLooseEqOnly ==
  Returned =>
    \A k \in 1..Len(lines) :
       TrimmedStartsWithComment(lines[k]) =>
          /\ EqIssue(k) \notin Range(issues)
          /\ LogIssue(k) \in Range(issues)
               <=> (Contains(ConsoleLogCall, lines[k]) /\ ~Contains(DebugLog, lines[k]))
          /\ WsIssue(k) \in Range(issues) <=> EndsWith(lines[k], {" ", "\t", "\f"})

\* An indented comment line with '==', the logging call and a trailing space
\* got the two other issues and no 'Found ==' issue.
C9_Witness ==
  /\ Returned
  /\ lines = <<CommentLine>>
  /\ LooseEqOccurrence(CommentLine)
  /\ issues = <<LogIssue(1), WsIssue(1)>>

(***************************************************************************)
(* C10.  What a line adds to the brace counter is the number of '{' minus  *)
(* the number of '}' among its characters that lie neither in a            *)
(* single-line comment nor in a block comment opened and closed on the     *)
(* line: a brace after the close of a block comment counts, also when the  *)
(* block comment's text contains '//'.                                     *)
(***************************************************************************)
RECURSIVE OutsideComments(_)
OutsideComments(s) ==
  IF s = <<>> THEN <<>>
  ELSE IF startswith(s, <<"/", "/">>) THEN <<>>
  ELSE LET closes == {q \in 3..(Len(s) - 1) : s[q] = "*" /\ s[q + 1] = "/"}
       IN IF startswith(s, <<"/", "*">>) /\ closes # {}
          THEN OutsideComments(SubSeq(s, Min(closes) + 2, Len(s)))
          ELSE <<Head(s)>> \o OutsideComments(Tail(s))

C10_CounterStepCountsOutsideComments ==
  [][CountLine =>
       open_braces' - open_braces
         = count(OutsideComments(lines[i]), "{") - count(OutsideComments(lines[i]), "}")]_vars

====
